---------------------------- MODULE Spec2Model ----------------------------
(***************************************************************************)
(* A model of monitor_oci_billing/main.py: the configuration loader, the   *)
(* usage fetch, the alert dispatch, the check cycle run_check, the         *)
(* scheduler loop schedule_check and the entry point main.                 *)
(*                                                                         *)
(* Money is counted in thousandths of a currency unit (mills), time in     *)
(* ticks of one time.sleep(60) call.                                       *)
(***************************************************************************)
EXTENDS Integers, Sequences, FiniteSets, TLC

VARIABLES
    file,        \* the configuration file on disk (the operator may edit it)
    args,        \* the command line: interval, run_once, cloud_shell
    pc,          \* main's position
    exitCode,    \* "running", or the process's exit status
    now,         \* wall clock, in ticks
    registered,  \* schedule.every(..).hours.do(..) has been called
    nextRun,     \* the registered job's next_run
    cyc,         \* the run_check execution in progress (or the idle record)
    active,      \* number of run_check executions in progress
    nStarted,    \* run_check executions started so far
    nDone,       \* run_check executions that returned to their caller
    nFailed,     \* of those, the ones that logged an error
    slept,       \* time.sleep(60) has been called at least once
    schedStart,  \* the time schedule_check was entered
    startupLoad, \* outcome of main's startup load_config: "none", "ok", "fail"
    startupFile, \* the file main's startup load_config read
    fileAtLoad,  \* the file as it was when the current cycle called load_config
    edits,       \* operator edits made so far
    loaded,      \* result of the load_config call of the loader specification
    usage,       \* the get_oci_usage call of the usage specification
    interrupted  \* a KeyboardInterrupt has been raised in the process

vars == <<file, args, pc, exitCode, now, registered, nextRun, cyc, active,
          nStarted, nDone, nFailed, slept, schedStart, startupLoad, startupFile,
          fileAtLoad, edits, loaded, usage, interrupted>>

---------------------------------------------------------------------------
(* Bounds of the model. *)

\* a usage response of the usage specification has at most MaxItems lines
MaxItems == 2

\* the clock stops the model at MaxTime ticks
MaxTime == 125

\* the operator edits the file at most MaxEdits times
MaxEdits == 2

(* Program constants. *)

\* time.sleep(60): one tick
SleepTicks == 1

\* schedule's "hours" unit: 3600 s = 60 sleeps of 60 s
TicksPerHour == 60

---------------------------------------------------------------------------
(* The configuration file.  An option that the file does not hold has the  *)
(* value Absent; "" is an option present with an empty value.              *)

Absent == "<absent>"

SectionOf(key) ==
    CASE key \in {"tenancy_ocid", "target_tenancy_ocid", "config_file", "profile_name"} -> "OCI"
      [] key \in {"start_time", "cost_threshold", "currency"} -> "Billing"
      [] OTHER -> "Alerting"

FeishuPrefixUrl == "https://open.feishu.cn/open-apis/bot/v2/hook/abc"

\* the valid file of tests/test_main.py, test_load_config_success
BaseFile ==
    [exists |-> TRUE, syntax |-> "ok", sections |-> {"OCI", "Billing", "Alerting"},
     tenancy_ocid |-> "ocid.parent", target_tenancy_ocid |-> Absent,
     config_file |-> "~/.oci/config", profile_name |-> "DEFAULT",
     start_time |-> "2024-01-01T00:00:00Z", cost_threshold |-> "100.00",
     currency |-> "USD", method |-> "log", feishu_webhook_url |-> Absent]

\* a path at which os.path.exists is False
MissingFile == [BaseFile EXCEPT !.exists = FALSE]

\* config.has_section / config.has_option
HasSection(f, s) == s \in f.sections

HasOption(f, key) == HasSection(f, SectionOf(key)) /\ f[key] # Absent

\* str.lower() on the method strings of the model
Lower(s) ==
    CASE s = "LOG" -> "log"
      [] s = "FeiShu" -> "feishu"
      [] s = "FEISHU" -> "feishu"
      [] OTHER -> s

\* float(s), as config.getfloat applies it: [ok, val], val in mills.
\* float accepts a sign; the empty string and non-numeric text raise ValueError.
GetFloat(s) ==
    CASE s = "100.00" -> [ok |-> TRUE, val |-> 100000]
      [] s = "100.0"  -> [ok |-> TRUE, val |-> 100000]
      [] s = "105.25" -> [ok |-> TRUE, val |-> 105250]
      [] s = "0"      -> [ok |-> TRUE, val |-> 0]
      [] s = "-5"     -> [ok |-> TRUE, val |-> -5000]
      [] OTHER        -> [ok |-> FALSE, val |-> 0]

\* datetime.strptime(s, '%Y-%m-%dT%H:%M:%SZ') succeeds.  %m, %d, %H, %M, %S
\* each accept one or two digits, so unpadded fields parse.
StrptimeOk(s) ==
    CASE s = "2024-01-01T00:00:00Z" -> TRUE
      [] s = "2024-07-01T00:00:00Z" -> TRUE
      [] s = "2024-1-1T0:0:0Z"      -> TRUE
      [] OTHER                      -> FALSE

\* s.startswith('https://open.feishu.cn/open-apis/bot/v2/hook/')
HasFeishuPrefix(s) == s = FeishuPrefixUrl

(* load_config: [kind, exc, cfg, warned].  kind "ok" returns the parsed     *)
(* file; kind "raise" raises exc.  The checks run in the order of the code. *)
LoadRaise(e) == [kind |-> "raise", exc |-> e, cfg |-> MissingFile, warned |-> FALSE]

MissingOption(f, keys) == \E k \in keys : ~HasOption(f, k)

\* load_config has not been called
NotLoaded == [kind |-> "notrun", exc |-> "none", cfg |-> MissingFile, warned |-> FALSE]

LoadConfig(f) ==
    IF ~f.exists THEN LoadRaise("FileNotFoundError")
    ELSE IF f.syntax # "ok" THEN LoadRaise("configparser.ParsingError")
    \* MissingSectionHeaderError('OCI', config_path, '') formats its message
    \* with '%d' % config_path: constructing the exception raises TypeError
    ELSE IF ~HasSection(f, "OCI") \/ ~HasSection(f, "Billing") \/ ~HasSection(f, "Alerting")
         THEN LoadRaise("TypeError")
    ELSE IF MissingOption(f, {"tenancy_ocid"}) THEN LoadRaise("configparser.NoOptionError")
    ELSE IF MissingOption(f, {"start_time", "cost_threshold", "currency"})
         THEN LoadRaise("configparser.NoOptionError")
    \* a ValueError is caught and re-raised as configparser.Error
    ELSE IF ~GetFloat(f.cost_threshold).ok THEN LoadRaise("configparser.Error")
    ELSE IF ~StrptimeOk(f.start_time) THEN LoadRaise("configparser.Error")
    ELSE IF MissingOption(f, {"method"}) THEN LoadRaise("configparser.NoOptionError")
    ELSE IF Lower(f.method) = "feishu" /\ ~HasOption(f, "feishu_webhook_url")
         THEN LoadRaise("configparser.NoOptionError")
    ELSE [kind |-> "ok", exc |-> "none", cfg |-> f,
          warned |-> Lower(f.method) = "feishu" /\ ~HasFeishuPrefix(f.feishu_webhook_url)]

\* Python's exception classes, as far as the except clauses tell them apart
IsConfigParserError(e) ==
    e \in {"configparser.Error", "configparser.NoOptionError", "configparser.ParsingError"}

IsException(e) == e \notin {"none", "KeyboardInterrupt", "SystemExit"}

---------------------------------------------------------------------------
(* get_oci_usage.  What the OCI SDK does is the environment's choice: env   *)
(* is [signer, api, status, items].                                        *)

\* a usage line: computed_amount (or None) and currency.iso_code
Item(a, c) == [hasAmount |-> TRUE, amount |-> a, cur |-> c]

NoAmountItem(c) == [hasAmount |-> FALSE, amount |-> 0, cur |-> c]

\* get_oci_signer_and_config: "ok", or the exception it raises
SignerResult(cfg, cloud, env) ==
    IF cloud THEN env.signer
    ELSE IF ~HasOption(cfg, "config_file") THEN "configparser.NoOptionError"
    ELSE IF ~HasOption(cfg, "profile_name") THEN "configparser.NoOptionError"
    ELSE env.signer

\* config.get('OCI', 'target_tenancy_ocid', fallback=auth_tenancy_ocid)
TargetTenancy(cfg) ==
    IF HasOption(cfg, "target_tenancy_ocid") THEN cfg.target_tenancy_ocid ELSE cfg.tenancy_ocid

\* the loop adding every line that has an amount, whatever its currency
RECURSIVE SumAllCurrencies(_, _)
SumAllCurrencies(items, currency) ==
    IF items = <<>> THEN 0
    ELSE (IF Head(items).hasAmount THEN Head(items).amount ELSE 0)
         + SumAllCurrencies(Tail(items), currency)

\* the loop over summarized_usages.data.items
RECURSIVE SumMatching(_, _)
SumMatching(items, currency) ==
    IF items = <<>> THEN 0
    ELSE LET it == Head(items)
         IN (IF it.hasAmount /\ it.cur = currency THEN it.amount ELSE 0)
            + SumMatching(Tail(items), currency)

UsageValue(v) == [kind |-> "value", val |-> v, exc |-> "none"]

UsageNone == [kind |-> "none", val |-> 0, exc |-> "none"]

UsageRaise(e) == [kind |-> "raise", val |-> 0, exc |-> e]

\* get_oci_usage: a value, None, or an exception that escapes it
GetOciUsage(cfg, cloud, env) ==
    LET s == SignerResult(cfg, cloud, env)
    IN IF s \in {"ConfigFileNotFound", "ProfileNotFound", "configparser.NoOptionError"}
            THEN UsageNone
       \* the ServiceError handler logs target_tenancy_ocid, which is not yet
       \* bound when the signer raised: the handler raises UnboundLocalError
       ELSE IF s = "ServiceError" THEN UsageRaise("UnboundLocalError")
       ELSE IF s # "ok" THEN UsageNone
       ELSE IF env.api # "ok" THEN UsageNone
       ELSE IF env.items = <<>> THEN UsageValue(0)
       ELSE UsageValue(SumMatching(env.items, cfg.currency))

\* get_oci_usage has not been called
NoUsage ==
    [called |-> FALSE, cfg |-> BaseFile,
     env |-> [signer |-> "ok", api |-> "ok", status |-> 200, items |-> <<>>],
     result |-> UsageNone]

---------------------------------------------------------------------------
(* Alerting. *)

\* requests.exceptions.RequestException and its subclasses
IsRequestException(e) == e \in {"ConnectionError", "HTTPError", "requests.JSONDecodeError"}

\* json.JSONDecodeError and its subclasses
IsJsonDecodeError(e) == e \in {"json.JSONDecodeError", "requests.JSONDecodeError"}

\* raise_for_status raising for the 5xx statuses only
RaiseForStatusServerOnly(status) == status >= 500 /\ status < 600

\* response.raise_for_status(): HTTPError for the 4xx and 5xx statuses
RaiseForStatus(status) == status >= 400 /\ status < 600

\* the exception raised inside the try block of send_feishu_alert, by
\* requests.post, raise_for_status, response.json() or result.get, or "none"
PostRaises(hook) ==
    IF hook.net # "ok" THEN hook.net
    ELSE IF RaiseForStatus(hook.status) THEN "HTTPError"
    ELSE IF hook.body = "nonjson" THEN hook.jsonExc
    ELSE IF hook.body = "nonobject" THEN "AttributeError"
    ELSE "none"

\* send_feishu_alert without its last clause, except Exception
SendFeishuCatchesRequestErrorsOnly(e) == IsRequestException(e) \/ IsJsonDecodeError(e)

\* send_feishu_alert's except clauses: RequestException, JSONDecodeError, Exception
SendFeishuCatches(e) == IsRequestException(e) \/ IsJsonDecodeError(e) \/ IsException(e)

\* send_feishu_alert: one POST with outcome hook; [log, exc], exc the
\* exception that leaves the function
SendFeishuAlert(hook) ==
    LET e == PostRaises(hook)
    IN IF e = "none"
       THEN [log |-> IF hook.body = "code0" THEN <<"info:feishu sent">>
                     ELSE <<"error:feishu returned error">>,
             exc |-> "none"]
       ELSE IF ~SendFeishuCatches(e) THEN [log |-> <<>>, exc |-> e]
       ELSE IF IsRequestException(e)
       THEN [log |-> <<"error:feishu request error">>, exc |-> "none"]
       ELSE IF IsJsonDecodeError(e)
       THEN [log |-> <<"error:feishu response not json">>, exc |-> "none"]
       ELSE [log |-> <<"error:feishu unknown error">>, exc |-> "none"]

\* a non-empty string is truthy
Truthy(s) == s # Absent /\ s # ""

\* no POST was made
NoHook == [net |-> "none", status |-> 0, body |-> "none", jsonExc |-> "none"]

\* trigger_alert: the lines it logs, the POSTs it makes, the exception that
\* leaves it, the message of its warning line, the method its
\* unsupported-method error names, and the outcome of its POST
TriggerAlert(method, message, cfg, hook) ==
    LET warning == <<"warning:ALERT TRIGGERED">>
        quiet == [log |-> warning, posts |-> 0, exc |-> "none", warned |-> message,
                  named |-> Absent, hook |-> NoHook]
    IN IF Lower(method) = "log" THEN quiet
       ELSE IF Lower(method) = "feishu"
            THEN IF HasOption(cfg, "feishu_webhook_url") /\ Truthy(cfg.feishu_webhook_url)
                 THEN LET s == SendFeishuAlert(hook)
                      IN [quiet EXCEPT !.log = warning \o s.log, !.posts = 1,
                                       !.exc = s.exc, !.hook = hook]
                 ELSE [quiet EXCEPT !.log = warning \o <<"error:feishu url not found">>]
       ELSE [quiet EXCEPT !.log = warning \o <<"error:unsupported method">>,
                          !.named = method]

---------------------------------------------------------------------------
(* run_check. *)

\* format(x, '.2f'): mills to hundredths
Fmt2(x) == (x + 5) \div 10

\* the alert message of run_check
Message(cfg, cost) ==
    [tenant |-> TargetTenancy(cfg), cost |-> Fmt2(cost), currency |-> cfg.currency,
     threshold |-> Fmt2(GetFloat(cfg.cost_threshold).val), start |-> cfg.start_time]

\* the comparison written with >= (a cost equal to the threshold alerts)
ExceedsOrEquals(cost, threshold) == cost >= threshold

\* if cumulative_cost > cost_threshold
Exceeds(cost, threshold) == cost > threshold

\* the test for None left out: a failed fetch is compared as a cost of 0
FetchFailedIgnored(r) == FALSE

\* if cumulative_cost is None
FetchFailed(r) == r.kind = "none"

\* run_check without its last clause, except Exception
CatchesConfigErrorsOnly(e) == e = "FileNotFoundError" \/ IsConfigParserError(e)

\* run_check's except clauses: FileNotFoundError, configparser.Error, Exception
Catches(e) == e = "FileNotFoundError" \/ IsConfigParserError(e) \/ IsException(e)

\* the log line of the except clause that catches e
CaughtLog(e) ==
    IF e = "FileNotFoundError" THEN "error:config file not found"
    ELSE IF IsConfigParserError(e) THEN "error:config error"
    ELSE "error:unexpected error"

\* the logger.error lines of run_check, trigger_alert and send_feishu_alert
ErrorLogs ==
    {"error:config file not found", "error:config error", "error:unexpected error",
     "error:cannot fetch usage", "error:feishu returned error", "error:feishu request error",
     "error:feishu response not json", "error:feishu unknown error",
     "error:feishu url not found",
     "error:unsupported method"}

LoggedError(log) == \E i \in 1..Len(log) : log[i] \in ErrorLogs

\* trigger_alert has not been called
NoDispatch == [exc |-> "none", warned |-> Absent, named |-> Absent, hook |-> NoHook]

\* no run_check in progress
IdleCyc ==
    [pc |-> "idle", ret |-> "none", sched |-> FALSE, cfg |-> MissingFile,
     fetch |-> "notrun", cost |-> 0, alerts |-> <<>>, posts |-> 0, log |-> <<>>,
     dur |-> 0, dispatch |-> NoDispatch]
---------------------------------------------------------------------------
(* Inputs. *)

\* --interval: argparse's type=int rejects text that int() cannot parse
NonIntInterval == [isInt |-> FALSE, val |-> 0]

Intervals == {NonIntInterval} \cup {[isInt |-> TRUE, val |-> v] : v \in -1..2}

ArgSet == [interval : Intervals, run_once : BOOLEAN, cloud_shell : BOOLEAN]

\* the files the operator writes
CycleFiles ==
    {BaseFile, MissingFile,
     [BaseFile EXCEPT !.sections = {"OCI", "Alerting"}],
     [BaseFile EXCEPT !.cost_threshold = "-5"],
     [BaseFile EXCEPT !.cost_threshold = "abc"],
     [BaseFile EXCEPT !.method = "FeiShu", !.feishu_webhook_url = FeishuPrefixUrl],
     [BaseFile EXCEPT !.method = "feishu", !.feishu_webhook_url = ""],
     [BaseFile EXCEPT !.method = "sms"],
     [BaseFile EXCEPT !.target_tenancy_ocid = "ocid.child", !.cost_threshold = "105.25",
                      !.start_time = "2024-07-01T00:00:00Z"],
     [BaseFile EXCEPT !.config_file = Absent]}

\* responses of the usage API
ItemLists ==
    {<<>>,
     <<Item(50500, "USD")>>,
     <<Item(50500, "USD"), Item(30000, "EUR")>>,
     <<Item(75250, "USD"), Item(30000, "USD")>>,
     <<Item(100000, "USD")>>,
     <<Item(100004, "USD"), NoAmountItem("USD")>>}

SignerOutcomes(cloud) ==
    IF cloud THEN {"ServiceError", "Exception"}
    ELSE {"ConfigFileNotFound", "ProfileNotFound", "Exception"}

FetchEnvs(cloud) ==
    {[signer |-> "ok", api |-> "ok", status |-> 200, items |-> l] : l \in ItemLists}
    \cup {[signer |-> o, api |-> "ok", status |-> 200, items |-> <<>>] : o \in SignerOutcomes(cloud)}
    \cup {[signer |-> "ok", api |-> "ServiceError", status |-> st, items |-> <<>>] : st \in {401, 500}}
    \cup {[signer |-> "ok", api |-> "Exception", status |-> 200, items |-> <<>>]}

\* the final HTTP statuses of the webhook's response
WebhookStatuses == {200, 300, 404}

\* the outcomes of requests.post: a network error, or a response with a
\* status and a body; response.json() raises on a body that is not JSON
WebhookOutcomes ==
    {[net |-> "ConnectionError", status |-> 0, body |-> "none", jsonExc |-> "none"]}
    \cup {[net |-> "ok", status |-> st, body |-> b, jsonExc |-> "none"] :
            st \in WebhookStatuses, b \in {"code0", "errcode", "nonobject"}}
    \cup {[net |-> "ok", status |-> st, body |-> "nonjson", jsonExc |-> e] :
            st \in WebhookStatuses,
            e \in {"requests.JSONDecodeError", "json.JSONDecodeError"}}

\* how long a usage fetch takes, in ticks: at once, a minute, more than an hour
DurSet == {0, SleepTicks, TicksPerHour + 1}

\* datetime.timedelta(hours=interval_hours)
Period == args.interval.val * TicksPerHour

---------------------------------------------------------------------------
(* The process. *)

Init ==
    /\ file \in CycleFiles
    /\ args \in ArgSet
    /\ pc = "main"
    /\ exitCode = "running"
    /\ now = 0
    /\ registered = FALSE
    /\ nextRun = 0
    /\ cyc = IdleCyc
    /\ active = 0
    /\ nStarted = 0
    /\ nDone = 0
    /\ nFailed = 0
    /\ slept = FALSE
    /\ schedStart = 0
    /\ startupLoad = "none"
    /\ startupFile = MissingFile
    /\ fileAtLoad = MissingFile
    /\ edits = 0
    /\ loaded = NotLoaded
    /\ usage = NoUsage
    /\ interrupted = FALSE

\* sys.exit(code), or the interpreter ending
Exit(code) == pc' = "exited" /\ exitCode' = code

\* a call of run_check whose caller resumes at ret
CallRunCheck(ret, sched) ==
    /\ cyc' = [IdleCyc EXCEPT !.pc = "load", !.ret = ret, !.sched = sched]
    /\ active' = active + 1
    /\ nStarted' = nStarted + 1

\* main without the exit on a startup load_config failure
MainWithoutValidation ==
    /\ pc = "main"
    /\ startupFile' = file
    /\ IF ~args.interval.isInt
       THEN Exit("2") /\ UNCHANGED <<startupLoad, cyc, active, nStarted>>
       ELSE IF args.interval.val <= 0
       THEN Exit("1") /\ UNCHANGED <<startupLoad, cyc, active, nStarted>>
       ELSE /\ startupLoad' = IF LoadConfig(file).kind = "ok" THEN "ok" ELSE "fail"
            /\ exitCode' = exitCode
            /\ IF args.run_once
               THEN pc' = "in_check" /\ CallRunCheck("run_once", FALSE)
               ELSE pc' = "schedule_check" /\ UNCHANGED <<cyc, active, nStarted>>
    /\ UNCHANGED <<file, args, now, registered, nextRun, nDone, nFailed, slept, schedStart,
                   fileAtLoad, edits, loaded, usage,
                   interrupted>>

\* main, up to the call of run_check or schedule_check
Main ==
    /\ pc = "main"
    /\ startupFile' = file
    /\ IF ~args.interval.isInt
       THEN Exit("2") /\ UNCHANGED <<startupLoad, cyc, active, nStarted>>
       ELSE IF args.interval.val <= 0
       THEN Exit("1") /\ UNCHANGED <<startupLoad, cyc, active, nStarted>>
       ELSE IF LoadConfig(file).kind # "ok"
       THEN Exit("1") /\ startupLoad' = "fail" /\ UNCHANGED <<cyc, active, nStarted>>
       ELSE /\ startupLoad' = "ok"
            /\ exitCode' = exitCode
            /\ IF args.run_once
               THEN pc' = "in_check" /\ CallRunCheck("run_once", FALSE)
               ELSE pc' = "schedule_check" /\ UNCHANGED <<cyc, active, nStarted>>
    /\ UNCHANGED <<file, args, now, registered, nextRun, nDone, nFailed, slept, schedStart,
                   fileAtLoad, edits, loaded, usage,
                   interrupted>>

\* schedule_check without the immediate run_check: the job is only registered
ScheduleCheckDeferred ==
    /\ pc = "schedule_check"
    /\ schedStart' = now
    /\ pc' = "register"
    /\ UNCHANGED <<file, args, exitCode, now, registered, nextRun, cyc, active, nStarted,
                   nDone, nFailed, slept, startupLoad, startupFile, fileAtLoad, edits, loaded, usage,
                   interrupted>>

\* schedule_check: the immediate run_check
ScheduleCheck ==
    /\ pc = "schedule_check"
    /\ schedStart' = now
    /\ pc' = "in_check"
    /\ CallRunCheck("register", FALSE)
    /\ UNCHANGED <<file, args, exitCode, now, registered, nextRun, nDone, nFailed, slept,
                   startupLoad, startupFile, fileAtLoad, edits, loaded, usage,
                   interrupted>>

\* schedule.every(interval_hours).hours.do(run_check, ...): next_run = now + period
Register ==
    /\ pc = "register"
    /\ registered' = TRUE
    /\ nextRun' = now + Period
    /\ pc' = "loop"
    /\ UNCHANGED <<file, args, exitCode, now, cyc, active, nStarted, nDone, nFailed, slept,
                   schedStart, startupLoad, startupFile, fileAtLoad, edits, loaded, usage,
                   interrupted>>

\* run_pending starting the job on a thread of its own and returning at once
RunPendingDetached ==
    /\ pc = "loop"
    /\ IF registered /\ now >= nextRun
       THEN pc' = "sleep" /\ CallRunCheck("job", TRUE)
       ELSE pc' = "sleep" /\ UNCHANGED <<cyc, active, nStarted>>
    /\ UNCHANGED <<file, args, exitCode, now, registered, nextRun, nDone, nFailed, slept,
                   schedStart, startupLoad, startupFile, fileAtLoad, edits, loaded, usage,
                   interrupted>>

\* schedule.run_pending(): runs the job, in this thread, when now >= next_run
RunPending ==
    /\ pc = "loop"
    /\ IF registered /\ now >= nextRun
       THEN pc' = "in_check" /\ CallRunCheck("job", TRUE)
       ELSE pc' = "sleep" /\ UNCHANGED <<cyc, active, nStarted>>
    /\ UNCHANGED <<file, args, exitCode, now, registered, nextRun, nDone, nFailed, slept,
                   schedStart, startupLoad, startupFile, fileAtLoad, edits, loaded, usage,
                   interrupted>>

\* time.sleep(60)
Sleep ==
    /\ pc = "sleep"
    /\ now + SleepTicks <= MaxTime
    /\ now' = now + SleepTicks
    /\ slept' = TRUE
    /\ pc' = "loop"
    /\ UNCHANGED <<file, args, exitCode, registered, nextRun, cyc, active, nStarted,
                   nDone, nFailed, schedStart, startupLoad, startupFile, fileAtLoad, edits, loaded, usage,
                   interrupted>>

\* an exception e raised inside run_check's try block: caught and logged, or
\* (were no clause to catch it) passed up to main, which exits 1
RaiseInCheck(c, e) ==
    IF Catches(e)
    THEN /\ cyc' = [c EXCEPT !.pc = "return",
                               !.log = @ \o <<CaughtLog(e), "info:check finished">>]
         /\ UNCHANGED <<pc, exitCode, active>>
    ELSE /\ cyc' = IdleCyc
         /\ active' = active - 1
         /\ Exit("1")

\* run_check using the configuration main loaded at startup
RunCheckLoadCached ==
    /\ cyc.pc = "load"
    /\ fileAtLoad' = file
    /\ LET r == LoadConfig(startupFile)
       IN IF r.kind = "ok"
          THEN /\ cyc' = [cyc EXCEPT !.pc = "fetch", !.cfg = r.cfg,
                                     !.log = <<"info:check started", "info:config loaded">>]
               /\ UNCHANGED <<pc, exitCode, active>>
          ELSE RaiseInCheck(cyc, r.exc)
    /\ UNCHANGED <<file, args, now, registered, nextRun, nStarted, nDone, nFailed, slept,
                   schedStart, startupLoad, startupFile, edits, loaded, usage,
                   interrupted>>

\* run_check: load_config and the reads of the loaded configuration
RunCheckLoad ==
    /\ cyc.pc = "load"
    /\ fileAtLoad' = file
    /\ LET r == LoadConfig(file)
       IN IF r.kind = "ok"
          THEN /\ cyc' = [cyc EXCEPT !.pc = "fetch", !.cfg = r.cfg,
                                     !.log = <<"info:check started", "info:config loaded">>]
               /\ UNCHANGED <<pc, exitCode, active>>
          ELSE RaiseInCheck(cyc, r.exc)
    /\ UNCHANGED <<file, args, now, registered, nextRun, nStarted, nDone, nFailed, slept,
                   schedStart, startupLoad, startupFile, edits, loaded, usage,
                   interrupted>>

\* run_check: get_oci_usage and the test for None
RunCheckFetch ==
    /\ cyc.pc = "fetch"
    /\ \E env \in FetchEnvs(args.cloud_shell), d \in DurSet :
         /\ now + d <= MaxTime
         /\ now' = now + d
         /\ LET r == GetOciUsage(cyc.cfg, args.cloud_shell, env)
                c == [cyc EXCEPT !.fetch = r.kind, !.dur = d]
            IN IF r.kind = "raise"
               THEN RaiseInCheck(c, r.exc)
               ELSE /\ IF FetchFailed(r)
                       THEN cyc' = [c EXCEPT !.pc = "return",
                                             !.log = Append(@, "error:cannot fetch usage")]
                       ELSE cyc' = [c EXCEPT !.pc = "compare", !.cost = r.val]
                    /\ UNCHANGED <<pc, exitCode, active>>
    /\ UNCHANGED <<file, args, registered, nextRun, nStarted, nDone, nFailed, slept,
                   schedStart, startupLoad, startupFile, fileAtLoad, edits, loaded, usage,
                   interrupted>>

\* run_check: the comparison with the threshold, and trigger_alert
RunCheckCompare ==
    /\ cyc.pc = "compare"
    /\ \E hook \in WebhookOutcomes :
         LET threshold == GetFloat(cyc.cfg.cost_threshold).val
             message == Message(cyc.cfg, cyc.cost)
             t == TriggerAlert(cyc.cfg.method, message, cyc.cfg, hook)
             c == [cyc EXCEPT
                     !.alerts = Append(@, [method |-> cyc.cfg.method, message |-> message]),
                     !.posts = @ + t.posts,
                     !.log = @ \o <<"info:cumulative usage">> \o t.log,
                     !.dispatch = [exc |-> t.exc, warned |-> t.warned,
                                   named |-> t.named, hook |-> t.hook]]
         IN IF Exceeds(cyc.cost, threshold)
            THEN IF t.exc # "none"
                 THEN RaiseInCheck(c, t.exc)
                 ELSE /\ cyc' = [c EXCEPT !.pc = "return",
                                          !.log = Append(@, "info:check finished")]
                      /\ UNCHANGED <<pc, exitCode, active>>
            ELSE /\ cyc' = [cyc EXCEPT !.pc = "return",
                             !.log = @ \o <<"info:cumulative usage", "info:within threshold",
                                            "info:check finished">>]
                 /\ UNCHANGED <<pc, exitCode, active>>
    /\ UNCHANGED <<file, args, now, registered, nextRun, nStarted, nDone, nFailed, slept,
                   schedStart, startupLoad, startupFile, fileAtLoad, edits, loaded, usage,
                   interrupted>>

\* run_check returns: to schedule_check before the registration, to the job
\* runner (which sets next_run = now + period), or to main in --run-once mode
RunCheckReturn ==
    /\ cyc.pc = "return"
    /\ active' = active - 1
    /\ nDone' = nDone + 1
    /\ nFailed' = IF LoggedError(cyc.log) THEN nFailed + 1 ELSE nFailed
    /\ cyc' = IdleCyc
    /\ IF cyc.ret = "run_once"
       THEN Exit("0") /\ UNCHANGED nextRun
       ELSE IF cyc.ret = "register"
       THEN pc' = "register" /\ UNCHANGED <<exitCode, nextRun>>
       ELSE pc' = "sleep" /\ nextRun' = now + Period /\ UNCHANGED exitCode
    /\ UNCHANGED <<file, args, now, registered, nStarted, slept, schedStart,
                   startupLoad, startupFile, fileAtLoad, edits, loaded, usage,
                   interrupted>>

\* The operator rewrites the configuration file.  The process reads the file
\* only in load_config, so an edit made at any time since the last read is
\* the same as this one, made just before run_check reads the file.
EditConfig ==
    /\ exitCode = "running"
    /\ cyc.pc = "load"
    /\ edits < MaxEdits
    /\ edits' = edits + 1
    /\ file' \in CycleFiles \ {file}
    /\ UNCHANGED <<args, pc, exitCode, now, registered, nextRun, cyc, active, nStarted,
                   nDone, nFailed, slept, schedStart, startupLoad, startupFile, fileAtLoad, loaded, usage,
                   interrupted>>

Next ==
    \/ Main
    \/ ScheduleCheck
    \/ Register
    \/ RunPending
    \/ Sleep
    \/ RunCheckLoad
    \/ RunCheckFetch
    \/ RunCheckCompare
    \/ RunCheckReturn
    \/ EditConfig

Spec == Init /\ [][Next]_vars

---------------------------------------------------------------------------
(* The check cycle. *)

\* the threshold of the file the current cycle loaded
ThresholdAtLoad == GetFloat(fileAtLoad.cost_threshold).val

\* the cycle in progress loaded its configuration and fetched a cost
CycleFetched == cyc.pc = "return" /\ cyc.fetch = "value"

\* C1: a cycle whose load and fetch succeed calls trigger_alert exactly once,
\* with the configured method and a message holding the cost and the
\* threshold to two decimals and the start time, when the cost is strictly
\* greater than the threshold, and never when it is equal or below.
C1_AlertIffCostExceedsThreshold ==
    CycleFetched =>
        IF cyc.cost > ThresholdAtLoad
        THEN /\ Len(cyc.alerts) = 1
             /\ cyc.alerts[1].method = fileAtLoad.method
             /\ cyc.alerts[1].message.cost = Fmt2(cyc.cost)
             /\ cyc.alerts[1].message.threshold = Fmt2(ThresholdAtLoad)
             /\ cyc.alerts[1].message.start = fileAtLoad.start_time
        ELSE cyc.alerts = <<>>

\* a cycle that found 105.25 against a threshold of 100.00 and alerted once
C1_Witness ==
    /\ CycleFetched
    /\ cyc.cost = 105250
    /\ ThresholdAtLoad = 100000
    /\ Len(cyc.alerts) = 1
    /\ cyc.alerts[1].message.cost = 10525

\* C2: a cycle whose usage fetch yields None logs an error and ends there:
\* it never reaches the comparison and calls trigger_alert zero times,
\* whatever the threshold is.
C2_NoAlertOnFetchFailure ==
    cyc.fetch = "none" =>
        /\ cyc.pc = "return"
        /\ cyc.alerts = <<>>
        /\ cyc.posts = 0
        /\ cyc.log[Len(cyc.log)] = "error:cannot fetch usage"

\* a failed fetch under a threshold that every cost would exceed
C2_Witness ==
    /\ cyc.fetch = "none"
    /\ cyc.pc = "return"
    /\ ThresholdAtLoad < 0

---------------------------------------------------------------------------
(* Startup. *)

InvalidStartup ==
    args.interval.isInt /\ (args.interval.val <= 0 \/ LoadConfig(startupFile).kind # "ok")

ExitedBeforeAnyCheck(code) ==
    pc = "exited" /\ exitCode = code /\ nStarted = 0 /\ ~registered

SchedulerOrCheckStarted ==
    nStarted > 0 \/ registered \/ pc \in {"schedule_check", "in_check", "register", "loop", "sleep"}

\* C3: when the interval is an integer that is not positive, or the startup
\* load_config fails, main exits with code 1; when the interval is not an
\* integer, the argument parser exits with code 2.  In each case no check
\* cycle has run and no task is registered, and a check cycle or the
\* scheduler only ever starts after a successful startup load_config.
C3_StartupGate ==
    /\ (pc # "main" /\ ~args.interval.isInt) => ExitedBeforeAnyCheck("2")
    /\ (pc # "main" /\ InvalidStartup) => ExitedBeforeAnyCheck("1")
    /\ SchedulerOrCheckStarted =>
           (startupLoad = "ok" /\ LoadConfig(startupFile).kind = "ok" /\ args.interval.val > 0)

\* main has exited 1 on a configuration that does not load, the interval being valid
C3_Witness ==
    /\ ExitedBeforeAnyCheck("1")
    /\ args.interval.isInt /\ args.interval.val > 0
    /\ startupLoad = "fail"
    /\ ~args.run_once

\* C3 as stated: every interval that is not a positive integer, and every
\* configuration that does not load, ends main with exit code 1 before any
\* check cycle or registration.
C3_AsStated ==
    /\ (pc # "main" /\ (~args.interval.isInt \/ InvalidStartup)) => ExitedBeforeAnyCheck("1")
    /\ SchedulerOrCheckStarted => startupLoad = "ok"

---------------------------------------------------------------------------
(* The scheduler. *)

\* C4: a failure of load_config, get_oci_usage or trigger_alert stays inside
\* its cycle.  Every step of run_check leads on towards its return, never out
\* of it by an exception; once startup has succeeded the process never exits
\* with an error; and whenever run_pending finds the job due it runs the next
\* cycle, however many cycles have failed before.
C4_CycleFailureContained ==
    /\ [](startupLoad = "ok" => (exitCode = "running" \/ (exitCode = "0" /\ args.run_once)))
    /\ [][(cyc.pc \in {"load", "fetch", "compare"} /\ cyc'.pc # cyc.pc)
             => cyc'.pc \in {"fetch", "compare", "return"}]_vars
    /\ [][(cyc.pc = "return" /\ cyc'.pc # "return" /\ cyc.ret # "run_once")
             => (exitCode' = "running" /\ pc' \in {"register", "sleep"})]_vars
    /\ [][(pc = "loop" /\ registered /\ now >= nextRun)
             => (cyc'.pc = "load" /\ cyc'.sched /\ registered')]_vars

\* a scheduled cycle starts after the two cycles before it both failed
C4_Witness ==
    /\ cyc.sched
    /\ cyc.pc = "load"
    /\ nDone = 2
    /\ nFailed = 2

\* C5: schedule_check runs exactly one run_check at once on entry: it starts
\* at the time schedule_check was entered, before any sleep, and has returned
\* before the repeating task is registered.
C5_ImmediateFirstCheck ==
    /\ pc = "schedule_check" => nStarted = 0
    /\ cyc.ret = "register" =>
           (nStarted = 1 /\ ~slept /\ ~registered /\ (cyc.pc = "load" => now = schedStart))
    /\ pc = "register" => (nStarted = 1 /\ nDone = 1 /\ ~slept /\ ~registered)
    /\ registered => nDone >= 1

\* the immediate check has run, taking time, and the task is about to be registered
C5_Witness ==
    /\ pc = "register"
    /\ nDone = 1
    /\ now > schedStart

\* C6: at most one run_check is in progress at any moment, and a cycle starts
\* only when every earlier cycle has returned, also after a check that took
\* longer than the interval.
C6_NoOverlap ==
    /\ active <= 1
    /\ active = nStarted - nDone
    /\ (active = 1) <=> (cyc.pc # "idle")
    /\ cyc.pc = "load" => nDone = nStarted - 1

\* the first scheduled cycle starts after an immediate check that took longer
\* than the interval
C6_Witness ==
    /\ cyc.sched
    /\ cyc.pc = "load"
    /\ nStarted = 2
    /\ nextRun - Period - schedStart > Period

\* C7: the k-th scheduled check is due k intervals after the scheduler
\* started, whatever earlier checks took, and starts within one polling
\* increment of that time.
C7_NoDrift ==
    /\ registered => nextRun = schedStart + nDone * Period
    /\ (cyc.sched /\ cyc.pc = "load") => now <= schedStart + nDone * Period + SleepTicks

\* C8: every cycle loads and validates the file as it is at that cycle's
\* load: the configuration the cycle uses, its threshold, currency, start
\* time, alert method and tenancy, is that file's, and a file that does not
\* validate ends the cycle before any fetch.
C8_ConfigReloadedEveryCycle ==
    /\ [][(cyc.pc = "load" /\ cyc'.pc # "load") => fileAtLoad' = file]_vars
    /\ [](cyc.pc \in {"fetch", "compare"} =>
              (cyc.cfg = fileAtLoad /\ LoadConfig(fileAtLoad).kind = "ok"))
    /\ [](cyc.pc = "return" =>
              IF LoadConfig(fileAtLoad).kind = "ok"
              THEN cyc.cfg = fileAtLoad /\ cyc.fetch # "notrun"
              ELSE cyc.fetch = "notrun" /\ cyc.alerts = <<>> /\ LoggedError(cyc.log))
    /\ [](CycleFetched /\ cyc.alerts # <<>> =>
              /\ cyc.alerts[1].method = fileAtLoad.method
              /\ cyc.alerts[1].message.tenant = TargetTenancy(fileAtLoad)
              /\ cyc.alerts[1].message.currency = fileAtLoad.currency
              /\ cyc.alerts[1].message.start = fileAtLoad.start_time
              /\ cyc.alerts[1].message.threshold = Fmt2(ThresholdAtLoad))

\* a scheduled cycle runs on a file edited twice since startup, after a failed cycle
C8_Witness ==
    /\ cyc.sched
    /\ cyc.pc = "fetch"
    /\ cyc.cfg # startupFile
    /\ edits = 2
    /\ nFailed = 1

---------------------------------------------------------------------------
(* load_config on its own: one call on each file of LoadFiles. *)

SectionSets == SUBSET {"OCI", "Billing", "Alerting"}

LoadFiles ==
    [exists : BOOLEAN, syntax : {"ok", "garbage"}, sections : SectionSets,
     tenancy_ocid : {Absent, "ocid.parent"}, target_tenancy_ocid : {Absent},
     config_file : {"~/.oci/config"}, profile_name : {"DEFAULT"},
     start_time : {Absent, "2024-01-01T00:00:00Z", "2024-1-1T0:0:0Z", "2024-01-01 00:00:00"},
     cost_threshold : {Absent, "100.00", "0", "-5", "abc", ""},
     currency : {Absent, "USD"},
     method : {Absent, "log", "FeiShu", "sms"},
     feishu_webhook_url : {Absent, "", FeishuPrefixUrl}]

InitLoad ==
    /\ file \in LoadFiles
    /\ args = [interval |-> [isInt |-> TRUE, val |-> 2], run_once |-> TRUE,
               cloud_shell |-> FALSE]
    /\ pc = "load_config"
    /\ exitCode = "running"
    /\ now = 0
    /\ registered = FALSE
    /\ nextRun = 0
    /\ cyc = IdleCyc
    /\ active = 0
    /\ nStarted = 0
    /\ nDone = 0
    /\ nFailed = 0
    /\ slept = FALSE
    /\ schedStart = 0
    /\ startupLoad = "none"
    /\ startupFile = MissingFile
    /\ fileAtLoad = MissingFile
    /\ edits = 0
    /\ loaded = NotLoaded
    /\ usage = NoUsage
    /\ interrupted = FALSE

\* a call load_config(config_path)
CallLoadConfig ==
    /\ pc = "load_config"
    /\ loaded' = LoadConfig(file)
    /\ pc' = "loaded"
    /\ UNCHANGED <<file, args, exitCode, now, registered, nextRun, cyc, active, nStarted,
                   nDone, nFailed, slept, schedStart, startupLoad, startupFile,
                   fileAtLoad, edits, usage, interrupted>>

NextLoad == CallLoadConfig

SpecLoad == InitLoad /\ [][NextLoad]_vars

\* the text is a number that is not negative
NonNegativeNumber(s) == s \in {"100.00", "100.0", "105.25", "0"}

\* the text has the form YYYY-MM-DDTHH:MM:SSZ, every field at its full width
MatchesFixedFormat(s) == s \in {"2024-01-01T00:00:00Z", "2024-07-01T00:00:00Z"}

RequiredKeys == {"tenancy_ocid", "start_time", "cost_threshold", "currency", "method"}

\* the file is there, parses, and holds every required section and key
HasAllRequired(f) ==
    /\ f.exists
    /\ f.syntax = "ok"
    /\ f.sections = {"OCI", "Billing", "Alerting"}
    /\ \A k \in RequiredKeys : HasOption(f, k)

\* C9: a file whose cost_threshold is not a non-negative number, or whose
\* start_time is not of the form YYYY-MM-DDTHH:MM:SSZ, makes load_config
\* fail with a configuration error: it is never returned as valid.
C9_RejectsBadThresholdAndStartTime ==
    (pc = "loaded" /\ HasAllRequired(file)
       /\ (~NonNegativeNumber(file.cost_threshold) \/ ~MatchesFixedFormat(file.start_time)))
    => (loaded.kind = "raise" /\ IsConfigParserError(loaded.exc))

\* the file lacks a required section or key, or names the webhook method
\* without a webhook URL
LacksRequired(f) ==
    \/ f.sections # {"OCI", "Billing", "Alerting"}
    \/ \E k \in RequiredKeys : ~HasOption(f, k)
    \/ (HasOption(f, "method") /\ Lower(f.method) = "feishu"
          /\ ~HasOption(f, "feishu_webhook_url"))

\* C10: load_config raises FileNotFoundError for a path that does not exist,
\* and a configparser.Error for a file that lacks a required section or key
\* or names the webhook method without a URL; it returns no configuration
\* in any of these cases.
C10_MissingPartsRaiseConfigError ==
    pc = "loaded" =>
        /\ ~file.exists => (loaded.kind = "raise" /\ loaded.exc = "FileNotFoundError")
        /\ (file.exists /\ LacksRequired(file)) =>
               (loaded.kind = "raise" /\ IsConfigParserError(loaded.exc))

---------------------------------------------------------------------------
(* Credentials of the file mode. *)

\* the file main read at startup lacks config_file or profile_name
LacksCredentialKeys(f) == ~HasOption(f, "config_file") \/ ~HasOption(f, "profile_name")

\* C11: without --cloud-shell, config_file and profile_name are required: a
\* file lacking either fails the startup validation, and main exits non-zero
\* before any check cycle runs or is scheduled.
C11_CredentialKeysRequiredAtStartup ==
    (pc # "main" /\ ~args.cloud_shell /\ args.interval.isInt /\ args.interval.val > 0
       /\ LacksCredentialKeys(startupFile))
    => (pc = "exited" /\ exitCode \in {"1", "2"} /\ nStarted = 0 /\ ~registered)

---------------------------------------------------------------------------
(* Dispatch of an alert. *)

\* the line l is in the log
Logged(log, l) == \E i \in 1..Len(log) : log[i] = l

\* the lines written by the dispatch that follows trigger_alert's warning
DispatchLogs ==
    {"info:feishu sent", "error:feishu returned error", "error:feishu request error",
     "error:feishu response not json", "error:feishu unknown error",
     "error:feishu url not found", "error:unsupported method"}

\* the cycle in progress called trigger_alert
Alerted == Len(cyc.alerts) = 1

\* C12: whatever the method and whatever the outcome of the webhook call,
\* trigger_alert first logs a warning line holding the message and then
\* returns without raising; the log method makes no network call, and an
\* unknown method logs an error that names the method.
C12_TriggerAlertWarnsAndReturns ==
    Alerted =>
        /\ cyc.dispatch.exc = "none"
        /\ cyc.dispatch.warned = cyc.alerts[1].message
        /\ \E i \in 1..Len(cyc.log) :
             /\ cyc.log[i] = "warning:ALERT TRIGGERED"
             /\ \A j \in 1..Len(cyc.log) : cyc.log[j] \in DispatchLogs => j > i
        /\ Lower(cyc.alerts[1].method) = "log" =>
             /\ cyc.posts = 0
             /\ \A j \in 1..Len(cyc.log) : cyc.log[j] \notin DispatchLogs
        /\ Lower(cyc.alerts[1].method) \notin {"log", "feishu"} =>
             /\ cyc.posts = 0
             /\ Logged(cyc.log, "error:unsupported method")
             /\ cyc.dispatch.named = cyc.alerts[1].method

\* a webhook answered 200 with a JSON body that is not an object: result.get
\* raised inside send_feishu_alert, and trigger_alert still returned
C12_Witness ==
    /\ Alerted
    /\ cyc.pc = "return"
    /\ cyc.dispatch.hook.status = 200
    /\ cyc.dispatch.hook.body = "nonobject"
    /\ cyc.dispatch.exc = "none"
    /\ Logged(cyc.log, "error:feishu unknown error")

\* the cycle in progress made its POST to the webhook
Posted == cyc.posts = 1

\* an error line of send_feishu_alert is in the cycle's log
DeliveryErrorLogged ==
    \E l \in {"error:feishu returned error", "error:feishu request error",
              "error:feishu response not json", "error:feishu unknown error"} :
        Logged(cyc.log, l)

\* C13 (as amended): a webhook dispatch sends one POST and never a second;
\* a network error, a response with a status of 400 or above, a body that is
\* not JSON and a JSON body without code 0 are each logged as an error and
\* never as a success; a success is logged exactly for a response with a
\* status below 400 whose JSON body carries code 0; nothing propagates.
C13_DeliveryFailuresLogged ==
    /\ cyc.posts <= 1
    /\ Posted =>
         LET h == cyc.dispatch.hook
             failed == h.net # "ok" \/ h.status >= 400 \/ h.body # "code0"
         IN /\ cyc.dispatch.exc = "none"
            /\ IF failed
               THEN DeliveryErrorLogged /\ ~Logged(cyc.log, "info:feishu sent")
               ELSE Logged(cyc.log, "info:feishu sent") /\ ~DeliveryErrorLogged

\* a POST answered 404 was logged as a request error
C13_Witness ==
    /\ Posted
    /\ cyc.pc = "return"
    /\ cyc.dispatch.hook.status = 404
    /\ Logged(cyc.log, "error:feishu request error")
    /\ cyc.dispatch.exc = "none"

\* C13 as stated: every response with a status outside 200..299 is logged as
\* an error, and a success is logged only for a status in 200..299.
C13_AsStated ==
    Posted =>
        LET h == cyc.dispatch.hook
        IN /\ (h.net = "ok" /\ h.status \notin 200..299) => DeliveryErrorLogged
           /\ Logged(cyc.log, "info:feishu sent") => h.status \in 200..299

\* C14: get_oci_usage never raises: a missing credentials file or profile, a
\* signer that cannot be created and a service error at any point all give
\* the caller None, so no cycle sees an exception come out of its fetch.
C14_UsageFailuresYieldNone == cyc.fetch \in {"notrun", "value", "none"}

\* C17: a configuration load_config accepts with the webhook method, in any
\* letter case and with any URL it accepts, makes a cycle that finds a breach
\* issue exactly one POST; trigger_alert's no-URL error is never logged.
C17_WebhookMethodAlwaysPosts ==
    (CycleFetched /\ Lower(fileAtLoad.method) = "feishu" /\ cyc.cost > ThresholdAtLoad)
    => (cyc.posts = 1 /\ ~Logged(cyc.log, "error:feishu url not found"))

---------------------------------------------------------------------------
(* get_oci_usage on its own: one call on each response of UsageInputs. *)

\* usage lines: an amount or None, and a currency with a code or without one
UsageItems ==
    {Item(a, c) : a \in {50500, 30000}, c \in {"USD", "EUR", Absent}}
    \cup {NoAmountItem(c) : c \in {"USD", "EUR"}}

SeqsUpTo(S, n) == UNION {[1..k -> S] : k \in 0..n}

\* a loaded configuration and what the SDK answers
UsageInputs ==
    [called : {FALSE},
     cfg : {LoadConfig([BaseFile EXCEPT !.currency = c]).cfg : c \in {"USD", "EUR"}},
     env : {[signer |-> "ok", api |-> a, status |-> 200, items |-> l] :
              a \in {"ok", "ServiceError"}, l \in SeqsUpTo(UsageItems, MaxItems)},
     result : {UsageNone}]

InitUsage ==
    /\ file = BaseFile
    /\ args = [interval |-> [isInt |-> TRUE, val |-> 2], run_once |-> TRUE,
               cloud_shell |-> FALSE]
    /\ pc = "get_oci_usage"
    /\ exitCode = "running"
    /\ now = 0
    /\ registered = FALSE
    /\ nextRun = 0
    /\ cyc = IdleCyc
    /\ active = 0
    /\ nStarted = 0
    /\ nDone = 0
    /\ nFailed = 0
    /\ slept = FALSE
    /\ schedStart = 0
    /\ startupLoad = "none"
    /\ startupFile = MissingFile
    /\ fileAtLoad = MissingFile
    /\ edits = 0
    /\ loaded = NotLoaded
    /\ usage \in UsageInputs
    /\ interrupted = FALSE

\* a call get_oci_usage(config, start_time_str, is_cloud_shell)
CallGetOciUsage ==
    /\ pc = "get_oci_usage"
    /\ usage' = [usage EXCEPT !.called = TRUE,
                              !.result = GetOciUsage(usage.cfg, args.cloud_shell, usage.env)]
    /\ pc' = "usage_returned"
    /\ UNCHANGED <<file, args, exitCode, now, registered, nextRun, cyc, active, nStarted,
                   nDone, nFailed, slept, schedStart, startupLoad, startupFile,
                   fileAtLoad, edits, loaded, interrupted>>

NextUsage == CallGetOciUsage

SpecUsage == InitUsage /\ [][NextUsage]_vars

\* the lines that have an amount and the currency code c
MatchingLines(items, c) == SelectSeq(items, LAMBDA it : it.hasAmount /\ it.cur = c)

\* the sum of the amounts of the first n lines
RECURSIVE AmountOfFirst(_, _)
AmountOfFirst(items, n) ==
    IF n = 0 THEN 0 ELSE AmountOfFirst(items, n - 1) + items[n].amount

\* C15: on a successful API response get_oci_usage returns the sum of the
\* amounts of the lines whose currency code is the configured currency, and
\* of no other line; a response with no line, or with no matching line,
\* gives the value 0 and not the fetch failure None.
C15_UsageIsSumOfMatchingLines ==
    (usage.called /\ usage.env.signer = "ok" /\ usage.env.api = "ok") =>
        LET m == MatchingLines(usage.env.items, usage.cfg.currency)
        IN /\ usage.result.kind = "value"
           /\ usage.result.val = AmountOfFirst(m, Len(m))
           /\ m = <<>> => usage.result.val = 0

\* a response of one line in the configured currency and one in another
C15_Witness ==
    /\ usage.called
    /\ usage.env.api = "ok"
    /\ usage.cfg.currency = "USD"
    /\ usage.env.items = <<Item(50500, "USD"), Item(30000, "EUR")>>
    /\ usage.result = UsageValue(50500)

---------------------------------------------------------------------------
(* The process under interrupts: Ctrl-C raises KeyboardInterrupt in the   *)
(* main thread, at whatever point it has reached.                         *)

\* the exit status of an interpreter ended by an uncaught KeyboardInterrupt:
\* death by SIGINT, reported as 130, or status 1 on older interpreters
UncaughtInterruptCodes == {"130", "1"}

\* KeyboardInterrupt is not an Exception: no except clause of run_check,
\* get_oci_usage, trigger_alert or send_feishu_alert catches it.  It reaches
\* main, whose except KeyboardInterrupt surrounds the call of schedule_check
\* and not the call of run_check made for --run-once.
Interrupt ==
    /\ pc \notin {"main", "exited"}
    /\ interrupted' = TRUE
    /\ cyc' = IdleCyc
    /\ active' = 0
    /\ IF args.run_once
       THEN \E code \in UncaughtInterruptCodes : Exit(code)
       ELSE Exit("0")
    /\ UNCHANGED <<file, args, now, registered, nextRun, nStarted, nDone, nFailed, slept,
                   schedStart, startupLoad, startupFile, fileAtLoad, edits, loaded, usage>>

NextInterrupt == Next \/ Interrupt

SpecInterrupt == Init /\ [][NextInterrupt]_vars

\* C16: an interrupt that arrives after startup, during the immediate first
\* check, a scheduled check, the sleep or a --run-once check, is caught at
\* the top level and ends the process with exit code 0.
C16_InterruptExitsZero == interrupted => (pc = "exited" /\ exitCode = "0")

===========================================================================
